---- MODULE Spec2Model ----
(***************************************************************************)
(* State-machine model of the OpenAI realtime client scripts:              *)
(*   t2t_WebSockets.py  one-shot text request over a WebSocket             *)
(*   t2t_WebRTC.py      one-shot text request over a WebRTC data channel   *)
(*   chat_test.py       interactive text chat over a WebSocket             *)
(*   voice_request_response.py  voice round trip over WebRTC               *)
(* One behaviour is one run of one script; `script` says which.  A run of   *)
(* "AudioFileTrack" constructs the voice script's file-backed audio track   *)
(* on its own and pulls frames from it.                                     *)
(***************************************************************************)
EXTENDS Integers, Sequences, FiniteSets, TLC

VARIABLES
    script,             \* which script this run executes
    conn,               \* transport: "new", "open" (socket / data channel open), "closed"
    remote,             \* WebRTC: a remote description has been applied
    pc_created,         \* WebRTC: RTCPeerConnection() has been constructed
    signaling,          \* WebRTC: the signaling endpoint's answer (status, SDP), once received
    mainpc,             \* position of the main coroutine / the sender thread `run`
    result,             \* value the run returned ("none" while it runs)
    sent,               \* outbound JSON events, by type, in send order
    calls,              \* calls made on the recorder and the peer connection, in order
    inbox,              \* text scripts: raw inbound messages handed to the handler
    complete_response,  \* text scripts: the response buffer (module global)
    surfaced,           \* texts printed by print(complete_response)
    escaped,            \* an exception left a message handler
    response_complete,  \* chat_test: flag polled by the sender thread
    running,            \* chat_test: flag of the sender loop
    requests,           \* chat_test: requests the sender has started
    outstanding,        \* chat_test: response.create events the server has not completed
    received_audio,     \* voice: module global
    recording_started,  \* voice: module global
    response_started,   \* voice: module global
    response_done,      \* voice: module global
    tasks,              \* voice: the asyncio tasks created so far and where each stands
    seen,               \* voice: lifecycle event types the handler has been called with
    nEvents,            \* voice: number of messages handed to the handler
    timed_out,          \* voice: wait_for_response took its timeout branch
    stop_raised,        \* voice: the latest recorder.stop() raised
    nShutdowns,         \* voice: schedule_shutdown tasks created so far
    wav,                \* voice: the input file as the wave module reads it
    track,              \* voice: the AudioFileTrack object, once constructed
    frame,              \* voice: what the latest AudioFileTrack.recv call returned
    nRecv               \* voice: recv calls made on the track

sessionVars == <<conn, remote, pc_created, signaling, mainpc, result, sent, calls>>
textVars == <<inbox, complete_response, surfaced>>
chatVars == <<response_complete, running, requests, outstanding>>
flagVars == <<received_audio, recording_started, response_started, response_done>>
voiceVars == <<flagVars, tasks, seen, nEvents, timed_out, stop_raised>>
trackVars == <<wav, track, frame, nRecv>>

vars == <<script, sessionVars, textVars, escaped, chatVars, voiceVars, nShutdowns, trackVars>>

----------------------------------------------------------------------------
(* Bounds of the model *)

\* inbound messages handed to a text handler in one run
MaxEvents == 4
\* requests the interactive sender starts in one run
MaxRequests == 2
\* inbound messages handed to the voice handler in one run
MaxVoiceEvents == 3

----------------------------------------------------------------------------
(* JSON documents.  A raw message is either not JSON at all ("invalid"), a   *)
(* JSON value that is not an object ("array": [1, 2]; a scalar behaves the  *)
(* same), or an object, of which the members the handlers read are kept.    *)
(* A member is absent, a string, a number or an object.                     *)

Absent == [t |-> "absent", v |-> ""]
Str(s) == [t |-> "str", v |-> s]
Num(s) == [t |-> "num", v |-> s]

Invalid == [kind |-> "invalid", type |-> Absent, delta |-> Absent, item |-> Absent]
Array == [kind |-> "array", type |-> Absent, delta |-> Absent, item |-> Absent]
Obj(type, delta, item) == [kind |-> "object", type |-> type, delta |-> delta, item |-> item]
Event(type) == Obj(Str(type), Absent, Absent)
Delta(s) == Obj(Str("response.text.delta"), Str(s), Absent)

\* The inbound messages of the text scripts.
TextMessages ==
    { Event("response.created"),        \* {"type":"response.created"}
      Delta("Hel"),                     \* {"type":"response.text.delta","delta":"Hel"}
      Delta("lo"),                      \* {"type":"response.text.delta","delta":"lo"}
      Event("response.text.delta"),     \* {"type":"response.text.delta"}
      Obj(Str("response.text.delta"), Num("5"), Absent),
                                        \* {"type":"response.text.delta","delta":5}
      Event("response.done"),           \* {"type":"response.done"}
      Event("session.created"),         \* {"type":"session.created"}
      Obj(Str("conversation.item.created"), Absent, Str("user")),
                                        \* {"type":"conversation.item.created","item":"user"}
      Invalid,                          \* {"type":
      Array }                           \* [1, 2]

\* json.loads(message): the document, or JSONDecodeError.
json_loads(message) ==
    IF message.kind = "invalid"
    THEN [exc |-> "JSONDecodeError", value |-> message]
    ELSE [exc |-> "none", value |-> message]

\* d.get(key, default) on a parsed object member.
get(member, default) == IF member.t = "absent" THEN default ELSE member

----------------------------------------------------------------------------
(* The text handlers.  A handler body maps the globals it owns and a raw    *)
(* message to the globals after it and the exception it raised, if any; an  *)
(* exception leaves the globals as they were when it was raised.            *)

TextState == [complete_response |-> complete_response, surfaced |-> surfaced,
              response_complete |-> response_complete]

Raise(e, st) == [exc |-> e, st |-> st]
Return(st) == [exc |-> "none", st |-> st]

reset_buffer_Kept(buffer) == buffer

\* complete_response = ""  (the same statement in the three text handlers)
reset_buffer(buffer) == ""

accumulate_Prepend(buffer, delta) == delta \o buffer

\* complete_response += delta  (the same statement in the three text handlers)
accumulate(buffer, delta) == buffer \o delta

\* t2t_WebRTC.on_message, the statements inside try.
on_message_try_RTC(st, message) ==
    LET parsed == json_loads(message)
        server_event == parsed.value
    IN  IF parsed.exc # "none" THEN Raise(parsed.exc, st)
        ELSE IF server_event.kind # "object" THEN Raise("AttributeError", st)
        ELSE LET event_type == get(server_event.type, Str(""))
                 delta == get(server_event.delta, Str(""))
             IN  IF event_type = Str("response.created")
                 THEN Return([st EXCEPT !.complete_response = reset_buffer(@)])
                 ELSE IF event_type = Str("response.text.delta")
                 THEN IF delta.t = "str"
                      THEN Return([st EXCEPT !.complete_response = accumulate(@, delta.v)])
                      ELSE Raise("TypeError", st)
                 ELSE IF event_type = Str("response.done")
                 THEN Return([st EXCEPT !.surfaced = Append(@, st.complete_response)])
                 ELSE Return(st)

\* t2t_WebSockets.on_message, the statements inside try.
on_message_try_WS(st, message) ==
    LET parsed == json_loads(message)
        server_event == parsed.value
    IN  IF parsed.exc # "none" THEN Raise(parsed.exc, st)
        ELSE IF server_event.kind # "object" THEN Raise("AttributeError", st)
        ELSE LET event_type == get(server_event.type, Str(""))
                 delta == get(server_event.delta, Str(""))
             IN  IF event_type = Str("session.created")
                 THEN Return(st)
                 ELSE IF event_type = Str("conversation.item.created")
                 THEN \* server_event.get("item", {}).get("role"): only an
                      \* object (or the default {}) has .get
                      IF server_event.item.t \in {"absent", "obj"}
                      THEN Return(st)
                      ELSE Raise("AttributeError", st)
                 ELSE IF event_type = Str("response.created")
                 THEN Return([st EXCEPT !.complete_response = reset_buffer(@)])
                 ELSE IF event_type = Str("response.text.delta")
                 THEN IF delta.t = "str"
                      THEN Return([st EXCEPT !.complete_response = accumulate(@, delta.v)])
                      ELSE Raise("TypeError", st)
                 ELSE IF event_type = Str("response.done")
                 THEN Return([st EXCEPT !.surfaced = Append(@, st.complete_response)])
                 ELSE Return(st)

\* chat_test.on_message, the statements inside try.  The deltas are printed
\* as they arrive; response.done prints a newline and sets response_complete.
on_message_try_Chat(st, message) ==
    LET parsed == json_loads(message)
        server_event == parsed.value
    IN  IF parsed.exc # "none" THEN Raise(parsed.exc, st)
        ELSE IF server_event.kind # "object" THEN Raise("AttributeError", st)
        ELSE LET event_type == get(server_event.type, Str(""))
                 delta == get(server_event.delta, Str(""))
             IN  IF event_type = Str("response.created")
                 THEN Return([st EXCEPT !.complete_response = reset_buffer(@)])
                 ELSE IF event_type = Str("response.text.delta")
                 THEN IF delta.t = "str"
                      THEN Return([st EXCEPT !.complete_response = accumulate(@, delta.v)])
                      ELSE Raise("TypeError", st)
                 ELSE IF event_type = Str("response.done")
                 THEN Return([st EXCEPT !.response_complete = TRUE])
                 ELSE Return(st)

\* The handlers: try: ... except Exception as e: pass / print(...).  Whatever
\* the body raised, the handler returns normally.
on_message_RTC(st, message) ==
    LET r == on_message_try_RTC(st, message)
    IN  [st |-> r.st, escaped |-> FALSE]

on_message_WS(st, message) ==
    LET r == on_message_try_WS(st, message)
    IN  [st |-> r.st, escaped |-> FALSE]

on_message_Chat(st, message) ==
    LET r == on_message_try_Chat(st, message)
    IN  [st |-> r.st, escaped |-> FALSE]

----------------------------------------------------------------------------
(* AudioFileTrack (voice_request_response.py).  A float sample is the       *)
(* fraction num / 2^bits.  An array of samples is kept as its explicit leading   *)
(* samples followed by a count of trailing zeros (np.zeros, zero padding),  *)
(* so that 5 s of silence is one record and not 240000 elements.            *)

\* frames a wave file of the model holds at most
MaxFrames == 3
\* recv calls made on one track
MaxRecv == 252
\* frames of the one long wave file, which spans several recv windows
LongFrames == 2000

\* self._sample_rate, self._samples_per_frame
sample_rate == 48000
samples_per_frame == 960

Min(a, b) == IF a < b THEN a ELSE b
Max(a, b) == IF a > b THEN a ELSE b

Sample(num, bits) == [num |-> num, bits |-> bits]
ndarray(samples, zeros) == [samples |-> samples, zeros |-> zeros]
\* np.zeros(n, dtype=np.float32)
np_zeros(n) == ndarray(<<>>, n)
\* len(a)
len(a) == Len(a.samples) + a.zeros
\* a[lo:hi] with 0 <= lo and hi <= len(a)
slice(a, lo, hi) ==
    ndarray(SubSeq(a.samples, lo + 1, Min(hi, Len(a.samples))),
          Max(0, hi - Max(lo, Len(a.samples))))
\* np.concatenate([a, np.zeros(n)])
pad(a, n) == ndarray(a.samples, a.zeros + n)
\* every sample of the array is zero
AllZero(a) == \A i \in DOMAIN a.samples : a.samples[i].num = 0
\* the i-th sample (from 0) of the array, as a fraction
At(a, i) == IF i < Len(a.samples) THEN a.samples[i + 1] ELSE Sample(0, 0)

\* The wave files of the model: what wave.open reads from them.  The k-th
\* stored sample has the integer value k, so no two samples are alike.
\* Besides the short files of every format there is one long file, one
\* whose resampling meets a tie (30 frames at 96000 Hz: linspace yields
\* 14.500000000000002), and one whose length times the ratio is a whole
\* number in exact arithmetic and just below it in floats (689 frames at
\* 5512 Hz: 5999.999999999999).
SampleWidths == {1, 2, 3, 4}
FrameRates == {8000, 11025, 44100, 48000, 96000}
WavFile(readable, channels, sample_width, framerate, nframes) ==
    [readable |-> readable, channels |-> channels, sample_width |-> sample_width,
     framerate |-> framerate, frames |-> [k \in 1..(nframes * channels) |-> k]]
WavFiles ==
    { WavFile(r, c, w, f, n) : r \in BOOLEAN, c \in {1, 2}, w \in SampleWidths,
                               f \in FrameRates, n \in 0..MaxFrames }
    \cup { WavFile(TRUE, 1, 2, sample_rate, LongFrames),
           WavFile(TRUE, 1, 2, 96000, 30),
           WavFile(TRUE, 1, 2, 5512, 689) }
\* the file the voice run is given: mono, 16 bit, 48 kHz
DefaultWav == WavFile(TRUE, 1, 2, 48000, 2)

\* np.frombuffer(...).astype(np.float32) / 32768.0 (2^15) or / 2147483648.0
\* (2^31);
\* any other sample width raises ValueError
decode(w) ==
    IF w.sample_width = 2
    THEN [exc |-> "none", data |-> [k \in DOMAIN w.frames |-> Sample(w.frames[k], 15)]]
    ELSE IF w.sample_width = 4
    THEN [exc |-> "none", data |-> [k \in DOMAIN w.frames |-> Sample(w.frames[k], 31)]]
    ELSE [exc |-> "ValueError", data |-> <<>>]

\* audio_data.reshape(-1, 2).mean(axis=1) when channels == 2
downmix(data, channels) ==
    IF channels = 2
    THEN [k \in 1..(Len(data) \div 2) |->
             Sample(data[2 * k - 1].num + data[2 * k].num, data[2 * k].bits + 1)]
    ELSE data

\* the nearest integer to the fraction q/d (d > 0), a tie to the even side
Rounded(q, d) ==
    LET f == q \div d
        r == q % d
    IN  IF 2 * r < d THEN f
        ELSE IF 2 * r > d THEN f + 1
        ELSE IF f % 2 = 0 THEN f ELSE f + 1

\* Python floats and numpy float64 are IEEE 754 doubles.  A non-negative
\* double is mant * 2^exp, where mant is a natural number of at most 53
\* significant bits, kept as the sequence of its bits from the most
\* significant one (<<>> is zero).  Long division and multiplication work
\* on the same number cut into limbs of ten bits.
RECURSIVE Bits(_)
Bits(n) == IF n = 0 THEN <<>> ELSE Append(Bits(n \div 2), n % 2)

RECURSIVE Strip(_)
Strip(b) == IF b # <<>> /\ b[1] = 0 THEN Strip(Tail(b)) ELSE b

RECURSIVE Value(_)
Value(b) == IF b = <<>> THEN 0 ELSE 2 * Value(SubSeq(b, 1, Len(b) - 1)) + b[Len(b)]

RECURSIVE Inc(_)
Inc(b) ==
    IF b = <<>> THEN <<1>>
    ELSE IF b[Len(b)] = 0 THEN [b EXCEPT ![Len(b)] = 1]
    ELSE Append(Inc(SubSeq(b, 1, Len(b) - 1)), 0)

\* b * 2^k
ShiftLeft(b, k) == b \o [i \in 1..k |-> 0]

\* the limbs of the number whose bits are b
Limbs(b) ==
    LET n == (Len(b) + 9) \div 10
        padded == [i \in 1..(10 * n - Len(b)) |-> 0] \o b
    IN  [k \in 1..n |-> Value(SubSeq(padded, 10 * k - 9, 10 * k))]

\* the bits of the number whose limbs are l
Unlimbs(l) ==
    Strip([i \in 1..(10 * Len(l)) |->
              (l[(i - 1) \div 10 + 1] \div 2^(9 - ((i - 1) % 10))) % 2])

\* l divided by d (0 < d < 2^20), limb by limb from limb i on, the most
\* significant first: quotient q (limbs) and remainder r
RECURSIVE LongDiv(_, _, _, _, _)
LongDiv(l, i, d, q, r) ==
    IF i > Len(l) THEN [q |-> q, r |-> r]
    ELSE LongDiv(l, i + 1, d, Append(q, (1024 * r + l[i]) \div d), (1024 * r + l[i]) % d)

\* l times s (0 <= s < 2^20), limb by limb from limb i down, the least
\* significant first
RECURSIVE LongMul(_, _, _, _, _)
LongMul(l, i, s, carry, acc) ==
    IF i = 0 THEN Limbs(Bits(carry)) \o acc
    ELSE LongMul(l, i - 1, s, (l[i] * s + carry) \div 1024,
                 <<(l[i] * s + carry) % 1024>> \o acc)

\* Rounding of an exact result to a double (round to nearest, ties to
\* even): b holds the bits of its integer part, and sticky says that a
\* nonzero fraction follows.  drop is the number of low bits given up.
RoundBits(b, sticky) ==
    IF Len(b) <= 53 THEN [mant |-> b, drop |-> 0]
    ELSE LET keep == SubSeq(b, 1, 53)
             half == b[54] = 1
             below == sticky \/ \E i \in 55..Len(b) : b[i] = 1
             up == half /\ (below \/ keep[53] = 1)
         IN  [mant |-> IF up THEN Inc(keep) ELSE keep, drop |-> Len(b) - 53]

\* a / d in floats, for integers 0 <= a and 0 < d < 2^20: the quotient of
\* a * 2^80 by d has more than 53 bits unless a is 0
fdiv(a, d) ==
    LET x == LongDiv(Limbs(Bits(a)) \o [i \in 1..8 |-> 0], 1, d, <<>>, 0)
        r == RoundBits(Unlimbs(x.q), x.r # 0)
    IN  [mant |-> r.mant, exp |-> r.drop - 80]

\* i * x in floats, for an integer 0 <= i < 2^20 and a double x
fmul(i, x) ==
    LET l == Limbs(x.mant)
        r == RoundBits(Unlimbs(LongMul(l, Len(l), i, 0, <<>>)), FALSE)
    IN  [mant |-> r.mant, exp |-> x.exp + r.drop]

\* int(x): the integer part of the double x
trunc(x) ==
    IF x.exp >= 0 THEN Value(ShiftLeft(x.mant, x.exp))
    ELSE LET k == Len(x.mant) + x.exp
         IN  IF k <= 0 THEN 0 ELSE Value(SubSeq(x.mant, 1, k))

\* np.round(x).astype(int): the nearest integer to the double x, a tie to
\* the even side
np_round(x) ==
    IF x.exp >= 0 THEN Value(ShiftLeft(x.mant, x.exp))
    ELSE LET n == Len(x.mant)
             k == n + x.exp
             f == IF k <= 0 THEN 0 ELSE Value(SubSeq(x.mant, 1, k))
             half == k >= 0 /\ x.mant[k + 1] = 1
             below == \E i \in (Max(k, 0) + 2)..n : x.mant[i] = 1
         IN  IF half /\ (below \/ f % 2 = 1) THEN f + 1 ELSE f

new_length_Rounded(length, original_sample_rate) ==
    Rounded(length * sample_rate, original_sample_rate)

\* ratio = self._sample_rate / original_sample_rate
\* new_length = int(len(audio_data) * ratio)
new_length(length, original_sample_rate) ==
    trunc(fmul(length, fdiv(sample_rate, original_sample_rate)))

\* np.linspace(0, stop, num): element i (from 0) is i * step with
\* step = stop / (num - 1), and the last element is stop itself
linspace(stop, num) ==
    LET step == fdiv(stop, num - 1)
    IN  [i \in 1..num |->
            IF num = 1 THEN fdiv(0, 1)
            ELSE IF i = num THEN fdiv(stop, 1)
            ELSE fmul(i - 1, step)]

\* np.round(np.linspace(0, length - 1, n)).astype(int), from 1
indices(length, n) ==
    LET y == linspace(length - 1, n)
    IN  [i \in 1..n |-> np_round(y[i])]

\* the resampling step: audio_data[indices] when the rates differ
resample(data, original_sample_rate) ==
    IF original_sample_rate # sample_rate
    THEN LET n == new_length(Len(data), original_sample_rate)
             ix == indices(Len(data), n)
         IN  [i \in 1..n |-> data[ix[i] + 1]]
    ELSE data

\* np.zeros(self._sample_rate * 5): 5 seconds of silence
fallback_buffer == np_zeros(sample_rate * 5)

\* _load_audio_file, the statements inside try
load_audio_file_try(w) ==
    IF ~w.readable THEN [exc |-> "wave.Error", data |-> <<>>]
    ELSE LET d == decode(w)
         IN  IF d.exc # "none" THEN d
             ELSE [exc |-> "none",
                   data |-> resample(downmix(d.data, w.channels), w.framerate)]

load_audio_file_Raises(w) ==
    LET r == load_audio_file_try(w)
    IN  [raised |-> r.exc # "none", audio_data |-> ndarray(r.data, 0)]

\* _load_audio_file: self._audio_data afterwards; nothing is raised
load_audio_file(w) ==
    LET r == load_audio_file_try(w)
    IN  [raised |-> FALSE,
         audio_data |-> IF r.exc # "none" THEN fallback_buffer ELSE ndarray(r.data, 0)]

NoTrack == [made |-> FALSE, raised |-> FALSE, file_loaded |-> FALSE,
            audio_data |-> np_zeros(0), position |-> 0, timestamp |-> 0]

\* AudioFileTrack.__init__
AudioFileTrack(w) ==
    LET r == load_audio_file(w)
    IN  [made |-> TRUE, raised |-> r.raised, file_loaded |-> ~r.raised,
         audio_data |-> r.audio_data, position |-> 0, timestamp |-> 0]

\* no frame: what a recv call that raised has returned
NoFrame == [made |-> FALSE, channels |-> 0, data |-> np_zeros(0),
            sample_rate |-> 0, timestamp |-> 0]

\* AudioFrame(channels=1, data=data, sample_rate=self._sample_rate,
\* timestamp=self._timestamp).  The name imported from aiortc.mediastreams is
\* av.AudioFrame, whose constructor takes format, layout, samples and align:
\* the call with these keywords raises TypeError and makes no frame.
AudioFrame(data, timestamp) ==
    [exc |-> "TypeError", frame |-> NoFrame]

\* AudioFileTrack.recv: the track afterwards, the frame returned and the
\* exception raised.  The cursor is moved before the frame is made and the
\* timestamp after it.
recv(t) ==
    LET past == t.position >= len(t.audio_data)
        end_pos == Min(t.position + samples_per_frame, len(t.audio_data))
        chunk == slice(t.audio_data, t.position, end_pos)
        data == IF past THEN np_zeros(samples_per_frame)
                ELSE IF len(chunk) < samples_per_frame
                THEN pad(chunk, samples_per_frame - len(chunk))
                ELSE chunk
        moved == [t EXCEPT !.position = IF past THEN @ ELSE @ + samples_per_frame]
        made == AudioFrame(data, t.timestamp)
    IN  IF made.exc # "none"
        THEN [track |-> moved, frame |-> NoFrame, exc |-> made.exc]
        ELSE [track |-> [moved EXCEPT !.timestamp = @ + samples_per_frame],
              frame |-> made.frame, exc |-> "none"]

----------------------------------------------------------------------------
(* Sessions of the text scripts *)

TextScripts == {"t2t_WebSockets", "t2t_WebRTC", "chat_test"}
Scripts == TextScripts \cup {"voice"}

\* HTTP statuses the signaling endpoint may answer with, and the answers' SDP
StatusCodes == {200, 201, 204, 401, 500}
SdpAnswers == {"valid", "malformed"}

\* What the endpoint answered: a success status (200 OK, 201 Created) or not,
\* and whether the body is an SDP answer the peer connection accepts.
NoAnswer == [success |-> FALSE, sdp |-> "none"]
Answer(status, sdp) == [success |-> status \in {200, 201}, sdp |-> sdp]

status_rejected_ServerErrors(status) == status >= 500

\* response.status not in [200, 201]
status_rejected(status) == status \notin {200, 201}

InitTasks == [send |-> "none", wait |-> "none", start |-> 0, sd_sleep |-> 0, sd_stopped |-> 0]

Init ==
    /\ script \in Scripts
    /\ conn = "new"
    /\ remote = FALSE
    /\ pc_created = FALSE
    /\ signaling = NoAnswer
    /\ mainpc = IF script = "voice" THEN "call" ELSE "start"
    /\ result = "none"
    /\ sent = <<>>
    /\ calls = <<>>
    /\ inbox = <<>>
    /\ complete_response = ""
    /\ surfaced = <<>>
    /\ escaped = FALSE
    /\ response_complete = TRUE
    /\ running = TRUE
    /\ requests = 0
    /\ outstanding = 0
    \* the voice globals hold whatever an earlier call in the process left
    /\ received_audio \in (IF script = "voice" THEN BOOLEAN ELSE {FALSE})
    /\ recording_started \in (IF script = "voice" THEN BOOLEAN ELSE {FALSE})
    /\ response_started \in (IF script = "voice" THEN BOOLEAN ELSE {FALSE})
    /\ response_done \in (IF script = "voice" THEN BOOLEAN ELSE {FALSE})
    /\ tasks = InitTasks
    /\ seen = {}
    /\ nEvents = 0
    /\ timed_out = FALSE
    /\ stop_raised = FALSE
    /\ nShutdowns = 0
    /\ wav = DefaultWav
    /\ track = NoTrack
    /\ frame = NoFrame
    /\ nRecv = 0

\* The server streams response events only for a response.create it has not
\* yet completed; chat_test counts them in `outstanding`.
IsResponseEvent(message) ==
    /\ message.kind = "object"
    /\ message.type \in {Str("response.created"), Str("response.text.delta"),
                         Str("response.done")}

\* The handler of the running text script is called with one raw message.
Deliver(message) ==
    /\ script \in TextScripts
    /\ conn = "open"
    /\ Len(inbox) < MaxEvents
    /\ (script = "chat_test" /\ IsResponseEvent(message)) => outstanding > 0
    /\ LET r == CASE script = "t2t_WebRTC" -> on_message_RTC(TextState, message)
                  [] script = "t2t_WebSockets" -> on_message_WS(TextState, message)
                  [] OTHER -> on_message_Chat(TextState, message)
       IN  /\ complete_response' = r.st.complete_response
           /\ surfaced' = r.st.surfaced
           /\ response_complete' = r.st.response_complete
           /\ escaped' = (escaped \/ r.escaped)
    /\ outstanding' = IF script = "chat_test" /\ message = Event("response.done")
                      THEN outstanding - 1 ELSE outstanding
    /\ inbox' = Append(inbox, message)
    /\ UNCHANGED <<script, nShutdowns, trackVars, sessionVars, running, requests, voiceVars>>

(* t2t_WebSockets.py *)

WS_on_open ==
    /\ script = "t2t_WebSockets"
    /\ conn = "new"
    /\ conn' = "open"
    /\ mainpc' = "send_item"
    /\ UNCHANGED <<script, nShutdowns, trackVars, remote, pc_created, signaling, result, sent, calls,
                   textVars, escaped, chatVars, voiceVars>>

WS_run_send_item ==
    /\ script = "t2t_WebSockets"
    /\ mainpc = "send_item"
    /\ sent' = Append(sent, "conversation.item.create")
    /\ mainpc' = "send_response"
    /\ UNCHANGED <<script, nShutdowns, trackVars, conn, remote, pc_created, signaling, result, calls,
                   textVars, escaped, chatVars, voiceVars>>

WS_run_send_response ==
    /\ script = "t2t_WebSockets"
    /\ mainpc = "send_response"
    /\ sent' = Append(sent, "response.create")
    /\ mainpc' = "sleep"
    /\ UNCHANGED <<script, nShutdowns, trackVars, conn, remote, pc_created, signaling, result, calls,
                   textVars, escaped, chatVars, voiceVars>>

WS_run_close ==
    /\ script = "t2t_WebSockets"
    /\ mainpc = "sleep"
    /\ conn' = "closed"
    /\ mainpc' = "done"
    /\ UNCHANGED <<script, nShutdowns, trackVars, remote, pc_created, signaling, result, sent, calls,
                   textVars, escaped, chatVars, voiceVars>>

(* chat_test.py *)

Inputs == {"hello", "exit", "Quit", "EXIT"}

lower_Identity(line) == line

\* str.lower() on the lines of Inputs
lower(line) == CASE line = "Quit" -> "quit" [] line = "EXIT" -> "exit" [] OTHER -> line

Chat_on_open ==
    /\ script = "chat_test"
    /\ conn = "new"
    /\ conn' = "open"
    /\ mainpc' = "loop"
    /\ UNCHANGED <<script, nShutdowns, trackVars, remote, pc_created, signaling, result, sent, calls,
                   textVars, escaped, chatVars, voiceVars>>

Chat_loop_Timeout ==
    /\ script = "chat_test"
    /\ mainpc = "loop"
    /\ mainpc' = IF ~running THEN "done" ELSE "input"
    /\ UNCHANGED <<script, nShutdowns, trackVars, conn, remote, pc_created, signaling, result, sent, calls,
                   textVars, escaped, chatVars, voiceVars>>

\* while running: / if response_complete: ... / time.sleep(0.1)
Chat_loop ==
    /\ script = "chat_test"
    /\ mainpc = "loop"
    /\ mainpc' = IF ~running THEN "done"
                 ELSE IF response_complete THEN "input" ELSE "sleep"
    /\ UNCHANGED <<script, nShutdowns, trackVars, conn, remote, pc_created, signaling, result, sent, calls,
                   textVars, escaped, chatVars, voiceVars>>

\* user_input = input("> ") returns a line.  On exit or quit the sender sets
\* running = False (line 45) and stands before ws.close() (line 46); the
\* receive loop may handle messages between the two statements.
Chat_input(user_input) ==
    /\ script = "chat_test"
    /\ mainpc = "input"
    /\ IF lower(user_input) \in {"exit", "quit"}
       THEN /\ running' = FALSE
            /\ mainpc' = "close"
            /\ UNCHANGED requests
       ELSE /\ requests < MaxRequests
            /\ requests' = requests + 1
            /\ mainpc' = "clear"
            /\ UNCHANGED running
    /\ UNCHANGED <<script, nShutdowns, trackVars, conn, remote, pc_created, signaling, result, sent,
                   calls, textVars, escaped, response_complete, outstanding, voiceVars>>

\* ws.close() and break
Chat_close ==
    /\ script = "chat_test"
    /\ mainpc = "close"
    /\ conn' = "closed"
    /\ mainpc' = "done"
    /\ UNCHANGED <<script, nShutdowns, trackVars, remote, pc_created, signaling, result, sent, calls,
                   textVars, escaped, chatVars, voiceVars>>

\* input() raises (EOFError on a closed stdin): the except branch prints the
\* error and closes the socket; running is left True and the thread ends.
Chat_except ==
    /\ script = "chat_test"
    /\ mainpc = "input"
    /\ conn' = "closed"
    /\ mainpc' = "done"
    /\ UNCHANGED <<script, nShutdowns, trackVars, remote, pc_created, signaling, result, sent, calls,
                   textVars, escaped, chatVars, voiceVars>>

clear_flag_Kept(flag) == flag

\* response_complete = False
clear_flag(flag) == FALSE

Chat_clear ==
    /\ script = "chat_test"
    /\ mainpc = "clear"
    /\ response_complete' = clear_flag(response_complete)
    /\ mainpc' = "send_item"
    /\ UNCHANGED <<script, nShutdowns, trackVars, conn, remote, pc_created, signaling, result, sent, calls,
                   textVars, escaped, running, requests, outstanding, voiceVars>>

Chat_send_item ==
    /\ script = "chat_test"
    /\ mainpc = "send_item"
    /\ sent' = Append(sent, "conversation.item.create")
    /\ mainpc' = "send_response"
    /\ UNCHANGED <<script, nShutdowns, trackVars, conn, remote, pc_created, signaling, result, calls,
                   textVars, escaped, chatVars, voiceVars>>

Chat_send_response ==
    /\ script = "chat_test"
    /\ mainpc = "send_response"
    /\ sent' = Append(sent, "response.create")
    /\ outstanding' = outstanding + 1
    /\ mainpc' = "sleep"
    /\ UNCHANGED <<script, nShutdowns, trackVars, conn, remote, pc_created, signaling, result, calls,
                   textVars, escaped, response_complete, running, requests, voiceVars>>

Chat_sleep ==
    /\ script = "chat_test"
    /\ mainpc = "sleep"
    /\ mainpc' = "loop"
    /\ UNCHANGED <<script, nShutdowns, trackVars, conn, remote, pc_created, signaling, result, sent, calls,
                   textVars, escaped, chatVars, voiceVars>>

(* t2t_WebRTC.py *)

RTC_create ==
    /\ script = "t2t_WebRTC"
    /\ mainpc = "start"
    /\ pc_created' = TRUE
    /\ mainpc' = "signal"
    /\ UNCHANGED <<script, nShutdowns, trackVars, conn, remote, signaling, result, sent, calls,
                   textVars, escaped, chatVars, voiceVars>>

\* The offer is posted; the answer is checked and applied.  A malformed
\* answer makes setRemoteDescription raise, which ends asyncio.run.
RTC_signal(status, sdp) ==
    /\ script = "t2t_WebRTC"
    /\ mainpc = "signal"
    /\ IF status_rejected(status)
       THEN /\ signaling' = Answer(status, sdp)
            /\ mainpc' = "returned"
            /\ result' = "None"
            /\ UNCHANGED remote
       ELSE IF sdp = "malformed"
       THEN /\ signaling' = Answer(status, sdp)
            /\ mainpc' = "raised"
            /\ result' = "exception"
            /\ UNCHANGED remote
       ELSE /\ signaling' = Answer(status, sdp)
            /\ remote' = TRUE
            /\ mainpc' = "sleep"
            /\ UNCHANGED result
    /\ UNCHANGED <<script, nShutdowns, trackVars, conn, pc_created, sent, calls,
                   textVars, escaped, chatVars, voiceVars>>

RTC_on_open ==
    /\ script = "t2t_WebRTC"
    /\ mainpc = "sleep"
    /\ remote
    /\ conn = "new"
    /\ conn' = "open"
    /\ sent' = sent \o <<"conversation.item.create", "response.create">>
    /\ UNCHANGED <<script, nShutdowns, trackVars, remote, pc_created, signaling, mainpc, result, calls,
                   textVars, escaped, chatVars, voiceVars>>

\* await asyncio.sleep(30); await pc.close()
RTC_close ==
    /\ script = "t2t_WebRTC"
    /\ mainpc = "sleep"
    /\ calls' = Append(calls, "pc.close")
    /\ conn' = "closed"
    /\ mainpc' = "returned"
    /\ result' = "None"
    /\ UNCHANGED <<script, nShutdowns, trackVars, remote, pc_created, signaling, sent,
                   textVars, escaped, chatVars, voiceVars>>

----------------------------------------------------------------------------
(* voice_request_response.py *)

\* The inbound messages of the voice script.
VoiceMessages ==
    { Event("response.audio.delta"),    \* {"type":"response.audio.delta"}
      Event("response.completed"),      \* {"type":"response.completed"}
      Event("session.created"),         \* {"type":"session.created"}
      Event("response.started"),        \* {"type":"response.started"}
      Event("response.done"),           \* {"type":"response.done"}
      Event("response.created"),        \* {"type":"response.created"}
      Obj(Num("5"), Absent, Absent),    \* {"type":5}
      Invalid,                          \* {"type":
      Array }                           \* [1, 2]

\* The event types that move the response lifecycle or gate the recorder.
LifecycleTypes == {"response.audio.delta", "response.started", "response.done",
                   "response.completed"}

\* send_response_create, start_recorder, wait_for_response and
\* schedule_shutdown are bound by async def statements that follow the
\* signaling block, while on_open and on_datachannel_message are registered
\* before it.  Until run_webrtc_client has left the two `async with` blocks
\* the names are unbound in the handlers' enclosing scope.
Bound == mainpc # "exit"

\* The globals and the tasks as a handler call sees them; exc is the
\* exception raised inside the call so far.
VoiceState == [received_audio |-> received_audio,
               recording_started |-> recording_started,
               response_started |-> response_started,
               response_done |-> response_done,
               tasks |-> tasks,
               bound |-> Bound,
               exc |-> "none"]

\* asyncio.create_task(start_recorder()) / asyncio.create_task(schedule_shutdown());
\* evaluating an unbound name raises NameError and nothing is scheduled
create_start_recorder(st) ==
    IF st.bound THEN [st EXCEPT !.tasks.start = @ + 1]
    ELSE [st EXCEPT !.exc = "NameError"]
create_schedule_shutdown(st) ==
    IF st.bound /\ st.exc = "none" THEN [st EXCEPT !.tasks.sd_sleep = @ + 1]
    ELSE [st EXCEPT !.exc = "NameError"]

\* elif event_type == "session.created": only a print
on_session_created_EagerStart(st) == create_start_recorder(st)

on_session_created(st) == st

\* if event_type == "response.audio.delta":
on_audio_delta(st) ==
    IF ~st.received_audio
    THEN LET s1 == [st EXCEPT !.received_audio = TRUE]
         IN  IF ~s1.recording_started THEN create_start_recorder(s1) ELSE s1
    ELSE st

\* elif event_type == "response.completed":
on_response_completed(st) ==
    create_schedule_shutdown([st EXCEPT !.response_done = TRUE])

on_response_started_ClearsDone(st) ==
    LET s1 == [st EXCEPT !.response_started = TRUE, !.response_done = FALSE]
    IN  IF ~s1.recording_started THEN create_start_recorder(s1) ELSE s1

\* elif event_type == "response.started":
on_response_started(st) ==
    LET s1 == [st EXCEPT !.response_started = TRUE]
    IN  IF ~s1.recording_started THEN create_start_recorder(s1) ELSE s1

\* elif event_type == "response.done":
on_response_done(st) ==
    LET s1 == [st EXCEPT !.response_done = TRUE]
        s2 == IF ~s1.response_started
              THEN LET s3 == [s1 EXCEPT !.response_started = TRUE]
                   IN  IF ~s3.recording_started THEN create_start_recorder(s3) ELSE s3
              ELSE s1
    IN  create_schedule_shutdown(s2)

\* the outcome of a branch: the state it left and what it raised
Branch(st) == [exc |-> st.exc, st |-> st]

\* on_datachannel_message, the statements inside try.
on_datachannel_message_try(st, message) ==
    LET parsed == json_loads(message)
        event == parsed.value
    IN  IF parsed.exc # "none" THEN Raise(parsed.exc, st)
        ELSE IF event.kind # "object" THEN Raise("AttributeError", st)
        ELSE LET event_type == get(event.type, Str(""))
             IN  IF event_type = Str("response.audio.delta")
                 THEN Branch(on_audio_delta(st))
                 ELSE IF event_type = Str("response.completed")
                 THEN Branch(on_response_completed(st))
                 ELSE IF event_type = Str("session.created")
                 THEN Branch(on_session_created(st))
                 ELSE IF event_type = Str("response.started")
                 THEN Branch(on_response_started(st))
                 ELSE IF event_type = Str("response.done")
                 THEN Branch(on_response_done(st))
                 ELSE Return(st)

on_datachannel_message_NoExcept(st, message) ==
    LET r == on_datachannel_message_try(st, message)
    IN  [st |-> r.st, escaped |-> r.exc # "none"]

\* on_datachannel_message: try: ... except Exception as e: print(...)
on_datachannel_message(st, message) ==
    LET r == on_datachannel_message_try(st, message)
    IN  [st |-> r.st, escaped |-> FALSE]

start_recorder_Unguarded(started, log) ==
    [recording_started |-> TRUE, calls |-> Append(log, "recorder.start")]

\* start_recorder: the globals and the call log after it.
start_recorder(started, log) ==
    IF ~started
    THEN [recording_started |-> TRUE, calls |-> Append(log, "recorder.start")]
    ELSE [recording_started |-> started, calls |-> log]

\* wait_for_response from the loop test on, given whether the 15 s have
\* elapsed; "poll" when it goes back to sleep for 0.1 s.
wait_for_response(started, log, elapsed) ==
    IF ~response_started /\ ~response_done
    THEN IF elapsed
         THEN \* break; the test after the loop is false
              [pc |-> "done", timed_out |-> TRUE, rec |-> start_recorder(started, log)]
         ELSE [pc |-> "poll", timed_out |-> FALSE,
               rec |-> [recording_started |-> started, calls |-> log]]
    ELSE [pc |-> "done", timed_out |-> FALSE, rec |-> start_recorder(started, log)]

\* The event loop runs from asyncio.run until run_webrtc_client returns or
\* raises; tasks still sleeping then are cancelled.
LoopRunning == mainpc \in {"exit", "sleep", "cleanup_close", "closing"}

Voice_reset_KeepsStarted ==
    /\ script = "voice"
    /\ mainpc = "call"
    /\ received_audio' = FALSE
    /\ response_started' = FALSE
    /\ response_done' = FALSE
    /\ mainpc' = "start"
    /\ UNCHANGED <<script, nShutdowns, trackVars, conn, remote, pc_created, signaling, result, sent, calls,
                   textVars, escaped, chatVars, tasks, seen, nEvents, timed_out, stop_raised,
                   recording_started>>

\* process_voice_file: reset of the module globals
Voice_reset ==
    /\ script = "voice"
    /\ mainpc = "call"
    /\ received_audio' = FALSE
    /\ recording_started' = FALSE
    /\ response_started' = FALSE
    /\ response_done' = FALSE
    /\ mainpc' = "start"
    /\ UNCHANGED <<script, nShutdowns, trackVars, conn, remote, pc_created, signaling, result, sent, calls,
                   textVars, escaped, chatVars, tasks, seen, nEvents, timed_out, stop_raised>>

Voice_validate_CreatesFirst(exists) ==
    /\ script = "voice"
    /\ mainpc = "start"
    /\ pc_created' = TRUE
    /\ track' = AudioFileTrack(wav)
    /\ IF ~exists
       THEN mainpc' = "returned" /\ result' = "False"
       ELSE mainpc' = "signal" /\ UNCHANGED result
    /\ UNCHANGED <<script, nShutdowns, wav, frame, nRecv, conn, remote, signaling, sent, calls,
                   textVars, escaped, chatVars, voiceVars>>

\* run_webrtc_client up to the offer
Voice_validate(exists) ==
    /\ script = "voice"
    /\ mainpc = "start"
    /\ IF ~exists
       THEN /\ mainpc' = "returned"
            /\ result' = "False"
            /\ UNCHANGED <<pc_created, track>>
       ELSE /\ pc_created' = TRUE
            /\ track' = AudioFileTrack(wav)
            /\ mainpc' = "signal"
            /\ UNCHANGED result
    /\ UNCHANGED <<script, nShutdowns, wav, frame, nRecv, conn, remote, signaling, sent, calls,
                   textVars, escaped, chatVars, voiceVars>>

\* The offer is posted; the answer is checked and applied.  A malformed
\* answer makes setRemoteDescription raise; process_voice_file returns False.
\* With the answer applied the coroutine still has the two `async with`
\* blocks to leave (lines 242, 241); each exit awaits the context manager's
\* __aexit__, where the event loop may run the channel's callbacks.  The
\* source fixes no order between those callbacks and the exits, so both
\* orders are behaviours of the model.
Voice_signal(status, sdp) ==
    /\ script = "voice"
    /\ mainpc = "signal"
    /\ IF status_rejected(status)
       THEN /\ signaling' = Answer(status, sdp)
            /\ mainpc' = "returned"
            /\ result' = "False"
            /\ UNCHANGED remote
       ELSE IF sdp = "malformed"
       THEN /\ signaling' = Answer(status, sdp)
            /\ mainpc' = "raised"
            /\ result' = "False"
            /\ UNCHANGED remote
       ELSE /\ signaling' = Answer(status, sdp)
            /\ remote' = TRUE
            /\ mainpc' = "exit"
            /\ UNCHANGED result
    /\ UNCHANGED <<script, nShutdowns, trackVars, conn, pc_created, sent, calls,
                   textVars, escaped, chatVars, voiceVars>>

\* The `async with` blocks are left, the async def statements bind
\* send_response_create, start_recorder, wait_for_response and
\* schedule_shutdown, and asyncio.sleep(60) begins.
Voice_bind ==
    /\ script = "voice"
    /\ mainpc = "exit"
    /\ mainpc' = "sleep"
    /\ UNCHANGED <<script, nShutdowns, trackVars, conn, remote, pc_created, signaling, result,
                   sent, calls, textVars, escaped, chatVars, voiceVars>>

Voice_on_open_CreateFirst ==
    /\ script = "voice"
    /\ LoopRunning
    /\ remote
    /\ conn = "new"
    /\ conn' = "open"
    /\ sent' = Append(Append(sent, "response.create"), "session.update")
    /\ tasks' = [tasks EXCEPT !.send = "done", !.wait = "poll"]
    /\ UNCHANGED <<script, nShutdowns, trackVars, remote, pc_created, signaling, mainpc, result, calls,
                   textVars, escaped, chatVars, flagVars, seen, nEvents, timed_out, stop_raised>>

Voice_on_open ==
    /\ script = "voice"
    /\ LoopRunning
    /\ remote
    /\ conn = "new"
    /\ conn' = "open"
    /\ sent' = Append(sent, "session.update")
    \* asyncio.create_task(send_response_create()): NameError while unbound,
    \* raised out of on_open into the emitter after session.update was sent
    /\ tasks' = IF Bound THEN [tasks EXCEPT !.send = "sleep"] ELSE tasks
    /\ UNCHANGED <<script, nShutdowns, trackVars, remote, pc_created, signaling, mainpc, result, calls,
                   textVars, escaped, chatVars, flagVars, seen, nEvents, timed_out, stop_raised>>

\* send_response_create after its sleep; dc.send raises on a closed channel
Voice_send_response_create ==
    /\ script = "voice"
    /\ LoopRunning
    /\ tasks.send = "sleep"
    /\ IF conn = "open"
       THEN /\ sent' = Append(sent, "response.create")
            /\ tasks' = [tasks EXCEPT !.send = "done", !.wait = "poll"]
       ELSE /\ tasks' = [tasks EXCEPT !.send = "done"]
            /\ UNCHANGED sent
    /\ UNCHANGED <<script, nShutdowns, trackVars, conn, remote, pc_created, signaling, mainpc, result, calls,
                   textVars, escaped, chatVars, flagVars, seen, nEvents, timed_out, stop_raised>>

Voice_deliver(message) ==
    /\ script = "voice"
    /\ LoopRunning
    /\ conn = "open"
    /\ nEvents < MaxVoiceEvents
    /\ LET r == on_datachannel_message(VoiceState, message)
       IN  /\ received_audio' = r.st.received_audio
           /\ recording_started' = r.st.recording_started
           /\ response_started' = r.st.response_started
           /\ response_done' = r.st.response_done
           /\ tasks' = r.st.tasks
           /\ nShutdowns' = nShutdowns + (r.st.tasks.sd_sleep - tasks.sd_sleep)
           /\ escaped' = (escaped \/ r.escaped)
    /\ seen' = IF message.kind = "object" /\ message.type.t = "str"
                  /\ message.type.v \in LifecycleTypes
               THEN seen \cup {message.type.v} ELSE seen
    /\ nEvents' = nEvents + 1
    /\ UNCHANGED <<script, trackVars, sessionVars, textVars, chatVars, timed_out, stop_raised>>

\* A task created by asyncio.create_task(start_recorder()) runs.
Voice_start_recorder ==
    /\ script = "voice"
    /\ LoopRunning
    /\ tasks.start > 0
    /\ LET r == start_recorder(recording_started, calls)
       IN  /\ recording_started' = r.recording_started
           /\ calls' = r.calls
    /\ tasks' = [tasks EXCEPT !.start = @ - 1]
    /\ UNCHANGED <<script, nShutdowns, trackVars, conn, remote, pc_created, signaling, mainpc, result, sent,
                   textVars, escaped, chatVars, received_audio, response_started,
                   response_done, seen, nEvents, timed_out, stop_raised>>

\* wait_for_response leaves its polling loop.
Voice_wait_for_response(elapsed) ==
    /\ script = "voice"
    /\ LoopRunning
    /\ tasks.wait = "poll"
    /\ LET r == wait_for_response(recording_started, calls, elapsed)
       IN  /\ r.pc = "done"
           /\ recording_started' = r.rec.recording_started
           /\ calls' = r.rec.calls
           /\ timed_out' = (timed_out \/ r.timed_out)
    /\ tasks' = [tasks EXCEPT !.wait = "done"]
    /\ UNCHANGED <<script, nShutdowns, trackVars, conn, remote, pc_created, signaling, mainpc, result, sent,
                   textVars, escaped, chatVars, received_audio, response_started,
                   response_done, seen, nEvents, stop_raised>>

stop_recorder_NoExcept(log, raises) ==
    [calls |-> Append(log, "recorder.stop"), raised |-> raises, continues |-> ~raises]

\* recorder.stop() inside try/except: the path goes on to pc.close() whether
\* or not stop raised.
stop_recorder(log, raises) ==
    [calls |-> Append(log, "recorder.stop"), raised |-> raises, continues |-> TRUE]

\* schedule_shutdown after its sleep: recorder.stop()
Voice_shutdown_stop(raises) ==
    /\ script = "voice"
    /\ LoopRunning
    /\ tasks.sd_sleep > 0
    /\ LET r == stop_recorder(calls, raises)
       IN  /\ calls' = r.calls
           /\ stop_raised' = r.raised
           /\ tasks' = [tasks EXCEPT !.sd_sleep = @ - 1,
                                     !.sd_stopped = IF r.continues THEN @ + 1 ELSE @]
    /\ UNCHANGED <<script, nShutdowns, trackVars, conn, remote, pc_created, signaling, mainpc, result, sent,
                   textVars, escaped, chatVars, flagVars, seen, nEvents, timed_out>>

\* schedule_shutdown: pc.close()
Voice_shutdown_close ==
    /\ script = "voice"
    /\ LoopRunning
    /\ tasks.sd_stopped > 0
    /\ calls' = Append(calls, "pc.close")
    /\ conn' = "closed"
    /\ tasks' = [tasks EXCEPT !.sd_stopped = @ - 1]
    /\ UNCHANGED <<script, nShutdowns, trackVars, remote, pc_created, signaling, mainpc, result, sent,
                   textVars, escaped, chatVars, flagVars, seen, nEvents, timed_out, stop_raised>>

Voice_cleanup_stop_AwaitsPoller(raises) ==
    /\ script = "voice"
    /\ mainpc = "sleep"
    /\ tasks.wait # "poll"
    /\ LET r == stop_recorder(calls, raises)
       IN  /\ calls' = r.calls
           /\ stop_raised' = r.raised
           /\ mainpc' = "cleanup_close"
    /\ UNCHANGED <<script, nShutdowns, trackVars, conn, remote, pc_created, signaling, result, sent,
                   textVars, escaped, chatVars, flagVars, tasks, seen, nEvents, timed_out>>

\* run_webrtc_client after asyncio.sleep(60): recorder.stop()
Voice_cleanup_stop(raises) ==
    /\ script = "voice"
    /\ mainpc = "sleep"
    /\ LET r == stop_recorder(calls, raises)
       IN  /\ calls' = r.calls
           /\ stop_raised' = r.raised
           /\ mainpc' = IF r.continues THEN "cleanup_close" ELSE "raised"
           /\ result' = IF r.continues THEN result ELSE "False"
    /\ UNCHANGED <<script, nShutdowns, trackVars, conn, remote, pc_created, signaling, sent,
                   textVars, escaped, chatVars, flagVars, tasks, seen, nEvents, timed_out>>

\* run_webrtc_client: await pc.close()
Voice_cleanup_close ==
    /\ script = "voice"
    /\ mainpc = "cleanup_close"
    /\ calls' = Append(calls, "pc.close")
    /\ conn' = "closed"
    /\ mainpc' = "closing"
    /\ UNCHANGED <<script, nShutdowns, trackVars, remote, pc_created, signaling, result, sent,
                   textVars, escaped, chatVars, voiceVars>>

\* run_webrtc_client returns True and asyncio.run ends the loop.  The loop's
\* ready queue is first-in first-out and the loop stops one iteration after
\* the main coroutine finishes, so a task made by asyncio.create_task before
\* that has run up to its first await: no start_recorder task is left unrun.
Voice_return ==
    /\ script = "voice"
    /\ mainpc = "closing"
    /\ tasks.start = 0
    /\ mainpc' = "returned"
    /\ result' = "True"
    /\ UNCHANGED <<script, nShutdowns, trackVars, conn, remote, pc_created, signaling, sent, calls,
                   textVars, escaped, chatVars, voiceVars>>

NextVoice ==
    \/ Voice_reset
    \/ \E exists \in BOOLEAN : Voice_validate(exists)
    \/ \E status \in StatusCodes, sdp \in SdpAnswers : Voice_signal(status, sdp)
    \/ Voice_bind
    \/ Voice_on_open
    \/ Voice_send_response_create
    \/ \E message \in VoiceMessages : Voice_deliver(message)
    \/ Voice_start_recorder
    \/ \E elapsed \in BOOLEAN : Voice_wait_for_response(elapsed)
    \/ \E raises \in BOOLEAN : Voice_shutdown_stop(raises)
    \/ Voice_shutdown_close
    \/ \E raises \in BOOLEAN : Voice_cleanup_stop(raises)
    \/ Voice_cleanup_close
    \/ Voice_return

\* AudioFileTrack(file_path)
Track_construct ==
    /\ script = "AudioFileTrack"
    /\ mainpc = "start"
    /\ track' = AudioFileTrack(wav)
    /\ mainpc' = IF track'.raised THEN "raised" ELSE "recv"
    /\ UNCHANGED <<script, nShutdowns, wav, frame, nRecv, conn, remote, pc_created, signaling,
                   result, sent, calls, textVars, escaped, chatVars, voiceVars>>

\* await track.recv(): the call raises what recv raises, and frame holds what
\* it returned
Track_recv ==
    /\ script = "AudioFileTrack"
    /\ mainpc = "recv"
    /\ nRecv < MaxRecv
    /\ LET r == recv(track)
       IN  /\ track' = r.track
           /\ frame' = r.frame
    /\ nRecv' = nRecv + 1
    /\ UNCHANGED <<script, nShutdowns, wav, sessionVars, textVars, escaped, chatVars, voiceVars>>

NextTrack ==
    \/ Track_construct
    \/ Track_recv

NextText ==
    \/ \E message \in TextMessages : Deliver(message)
    \/ WS_on_open
    \/ WS_run_send_item
    \/ WS_run_send_response
    \/ WS_run_close
    \/ Chat_on_open
    \/ Chat_loop
    \/ \E user_input \in Inputs : Chat_input(user_input)
    \/ Chat_close
    \/ Chat_except
    \/ Chat_clear
    \/ Chat_send_item
    \/ Chat_send_response
    \/ Chat_sleep
    \/ RTC_create
    \/ \E status \in StatusCodes, sdp \in SdpAnswers : RTC_signal(status, sdp)
    \/ RTC_on_open
    \/ RTC_close

InitText == Init /\ script \in TextScripts

\* chat_test.py alone: the sender thread and the receive loop
NextChat ==
    \/ \E message \in TextMessages : Deliver(message)
    \/ Chat_on_open
    \/ Chat_loop
    \/ \E user_input \in Inputs : Chat_input(user_input)
    \/ Chat_close
    \/ Chat_except
    \/ Chat_clear
    \/ Chat_send_item
    \/ Chat_send_response
    \/ Chat_sleep

InitChat == Init /\ script = "chat_test"

\* The sender thread keeps running: its polling loop (the test of the flags
\* and the sleep) always takes its next step, and so does the ws.close()
\* that follows running = False.  The server and the user owe nothing.
FairChat ==
    /\ InitChat
    /\ [][NextChat]_vars
    /\ WF_vars(Chat_loop)
    /\ WF_vars(Chat_sleep)
    /\ WF_vars(Chat_close)

SpecText == InitText /\ [][NextText]_vars


InitVoice == Init /\ script = "voice"

Next == NextText \/ NextVoice

Spec == Init /\ [][Next]_vars

\* a run that constructs an AudioFileTrack from some wave file and pulls frames
InitTrack ==
    /\ script = "AudioFileTrack"
    /\ wav \in WavFiles
    /\ conn = "new" /\ remote = FALSE /\ pc_created = FALSE /\ signaling = NoAnswer
    /\ mainpc = "start" /\ result = "none" /\ sent = <<>> /\ calls = <<>>
    /\ inbox = <<>> /\ complete_response = "" /\ surfaced = <<>> /\ escaped = FALSE
    /\ response_complete = TRUE /\ running = TRUE /\ requests = 0 /\ outstanding = 0
    /\ received_audio = FALSE /\ recording_started = FALSE
    /\ response_started = FALSE /\ response_done = FALSE
    /\ tasks = InitTasks /\ seen = {} /\ nEvents = 0 /\ timed_out = FALSE
    /\ stop_raised = FALSE /\ nShutdowns = 0
    /\ track = NoTrack /\ frame = NoFrame /\ nRecv = 0

SpecTrack == InitTrack /\ [][NextTrack]_vars

SpecVoice == InitVoice /\ [][NextVoice]_vars

\* The event loop runs every task that is ready, and every timer fires; the
\* network (the channel opening, inbound messages) owes nothing.
FairVoice ==
    /\ SpecVoice
    /\ WF_vars(Voice_bind)
    /\ WF_vars(Voice_send_response_create)
    /\ WF_vars(Voice_start_recorder)
    /\ WF_vars(\E elapsed \in BOOLEAN : Voice_wait_for_response(elapsed))
    /\ WF_vars(\E raises \in BOOLEAN : Voice_shutdown_stop(raises))
    /\ WF_vars(Voice_shutdown_close)
    /\ WF_vars(\E raises \in BOOLEAN : Voice_cleanup_stop(raises))
    /\ WF_vars(Voice_cleanup_close)
    /\ WF_vars(Voice_return)

\* Well-formed server events only, of the types the handlers act on and of
\* types they do not: an acknowledged user item, an event type no handler
\* names, and an object without a type.
FrameMessages ==
    { Event("response.created"),        \* {"type":"response.created"}
      Delta("Hel"),                     \* {"type":"response.text.delta","delta":"Hel"}
      Event("response.done"),           \* {"type":"response.done"}
      Event("session.created"),         \* {"type":"session.created"}
      Obj(Str("conversation.item.created"), Absent, [t |-> "obj", v |-> "user"]),
                                        \* {"type":"conversation.item.created","item":{"role":"user"}}
      Event("rate_limits.updated"),     \* {"type":"rate_limits.updated"}
      Obj(Absent, Absent, Absent) }     \* {}

VoiceFrameMessages ==
    { Event("response.audio.delta"),
      Event("response.completed"),
      Event("response.started"),
      Event("response.done"),
      Event("session.created"),
      Event("conversation.item.created"),
      Event("rate_limits.updated"),
      Obj(Absent, Absent, Absent) }

\* every script, with the server sending well-formed events only
NextFrames ==
    \/ \E message \in FrameMessages : Deliver(message)
    \/ WS_on_open
    \/ WS_run_send_item
    \/ WS_run_send_response
    \/ WS_run_close
    \/ Chat_on_open
    \/ Chat_loop
    \/ \E user_input \in Inputs : Chat_input(user_input)
    \/ Chat_close
    \/ Chat_except
    \/ Chat_clear
    \/ Chat_send_item
    \/ Chat_send_response
    \/ Chat_sleep
    \/ RTC_create
    \/ \E status \in StatusCodes, sdp \in SdpAnswers : RTC_signal(status, sdp)
    \/ RTC_on_open
    \/ RTC_close
    \/ Voice_reset
    \/ \E exists \in BOOLEAN : Voice_validate(exists)
    \/ \E status \in StatusCodes, sdp \in SdpAnswers : Voice_signal(status, sdp)
    \/ Voice_bind
    \/ Voice_on_open
    \/ Voice_send_response_create
    \/ \E message \in VoiceFrameMessages : Voice_deliver(message)
    \/ Voice_start_recorder
    \/ \E elapsed \in BOOLEAN : Voice_wait_for_response(elapsed)
    \/ \E raises \in BOOLEAN : Voice_shutdown_stop(raises)
    \/ Voice_shutdown_close
    \/ \E raises \in BOOLEAN : Voice_cleanup_stop(raises)
    \/ Voice_cleanup_close
    \/ Voice_return

SpecFrames == Init /\ [][NextFrames]_vars

\* Only the main coroutine's timer and awaits, and the tasks already ready to
\* run, are owed their steps; the poller and the shutdown tasks are not.
FairMain ==
    /\ SpecVoice
    /\ WF_vars(Voice_bind)
    /\ WF_vars(Voice_start_recorder)
    /\ WF_vars(\E raises \in BOOLEAN : Voice_cleanup_stop(raises))
    /\ WF_vars(Voice_cleanup_close)
    /\ WF_vars(Voice_return)

----------------------------------------------------------------------------
(* Properties *)

Count(seq, x) == Cardinality({i \in DOMAIN seq : seq[i] = x})

IsCreated(m) == m.kind = "object" /\ m.type = Str("response.created")
IsDone(m) == m.kind = "object" /\ m.type = Str("response.done")
\* a response.text.delta event whose delta is a string (a missing delta counts as "")
IsDelta(m) ==
    /\ m.kind = "object"
    /\ m.type = Str("response.text.delta")
    /\ m.delta.t \in {"str", "absent"}

\* The delta strings of h that arrived after the last response.created, in
\* arrival order.
RECURSIVE DeltasSinceCreated(_)
DeltasSinceCreated(h) ==
    IF h = <<>> THEN <<>>
    ELSE LET m == h[Len(h)]
             before == SubSeq(h, 1, Len(h) - 1)
         IN  IF IsCreated(m) THEN <<>>
             ELSE IF IsDelta(m) THEN Append(DeltasSinceCreated(before), m.delta.v)
             ELSE DeltasSinceCreated(before)

RECURSIVE Concat(_)
Concat(strings) ==
    IF strings = <<>> THEN "" ELSE strings[1] \o Concat(Tail(strings))

HelloScenario == <<Event("response.created"), Delta("Hel"), Delta("lo"), Event("response.done")>>

\* C1: when a text handler has just handled a response.done, the buffer
\* complete_response (and, in the one-shot scripts, the text printed for that
\* response) is the concatenation, in arrival order, of the deltas received
\* since the last response.created; created, "Hel", "lo", done gives "Hello".
C1_DeltasConcatenated ==
    (script \in TextScripts /\ inbox # <<>> /\ IsDone(inbox[Len(inbox)])) =>
        /\ complete_response = Concat(DeltasSinceCreated(inbox))
        /\ script # "chat_test" =>
              /\ surfaced # <<>>
              /\ surfaced[Len(surfaced)] = Concat(DeltasSinceCreated(inbox))
        /\ inbox = HelloScenario => complete_response = "Hello"

C1_Witness ==
    /\ script = "t2t_WebRTC"
    /\ inbox = HelloScenario
    /\ surfaced = <<"Hello">>

\* The texts print(complete_response) has shown after the messages of h: one
\* per response.done, each the deltas of its own response.
RECURSIVE SurfacedAfter(_)
SurfacedAfter(h) ==
    IF h = <<>> THEN <<>>
    ELSE LET before == SubSeq(h, 1, Len(h) - 1)
         IN  IF IsDone(h[Len(h)])
             THEN Append(SurfacedAfter(before), Concat(DeltasSinceCreated(h)))
             ELSE SurfacedAfter(before)

\* C2: a response.created empties complete_response whatever it held, so the
\* buffer always holds exactly the deltas received since the most recent
\* response.created, and each surfaced text holds only its own response's deltas.
C2_ResetOnCreated ==
    script \in TextScripts =>
        /\ complete_response = Concat(DeltasSinceCreated(inbox))
        /\ (inbox # <<>> /\ IsCreated(inbox[Len(inbox)])) => complete_response = ""
        /\ script # "chat_test" => surfaced = SurfacedAfter(inbox)

C2_Witness ==
    /\ script = "chat_test"
    /\ Len(inbox) >= 3
    /\ inbox[Len(inbox) - 2] = Delta("Hel")
    /\ IsCreated(inbox[Len(inbox) - 1])
    /\ inbox[Len(inbox)] = Delta("lo")
    /\ complete_response = "lo"

\* A payload that is not JSON, is not a JSON object, or carries a member of
\* unexpected type where the handler reads it.
Malformed(m) ==
    \/ m.kind \in {"invalid", "array"}
    \/ m.type.t \notin {"str", "absent"}
    \/ m.type = Str("response.text.delta") /\ m.delta.t \notin {"str", "absent"}
    \/ m.type = Str("conversation.item.created") /\ m.item.t \notin {"obj", "absent"}

\* C3: a malformed payload raises nothing past the handler and changes no
\* state: the buffer, the flags, the tasks, what was sent and called stay as
\* they were (only the count of handled messages moves), in the text
\* handlers and in the voice handler.
C3_MalformedIsNoOp ==
    [][ /\ ~escaped'
        /\ \A m \in TextMessages \cup VoiceMessages :
              (Malformed(m) /\ (Deliver(m) \/ Voice_deliver(m))) =>
                  UNCHANGED <<script, nShutdowns, trackVars, sessionVars, complete_response, surfaced,
                              chatVars, flagVars, tasks, seen, timed_out>> ]_vars

\* a malformed message was handled and the delta after it was still accumulated
C3_Witness ==
    /\ script \in TextScripts
    /\ Len(inbox) >= 2
    /\ Malformed(inbox[Len(inbox) - 1])
    /\ inbox[Len(inbox)] = Delta("Hel")
    /\ complete_response = "Hel"
    /\ ~escaped

\* C4: in chat_test at most one response is in flight: the response.create
\* events sent exceed the response.done events handled by at most one, and
\* while one is in flight response_complete is false and the sender only
\* polls.
C4_OneInFlight ==
    script = "chat_test" =>
        LET inflight == Count(sent, "response.create") - Count(inbox, Event("response.done"))
        IN  /\ inflight \in {0, 1}
            /\ inflight = 1 => (~response_complete /\ mainpc \in {"sleep", "loop"})

\* the second request went out after the first was completed
C4_Witness ==
    /\ script = "chat_test"
    /\ Count(sent, "response.create") = 2
    /\ Count(inbox, Event("response.done")) = 1
    /\ ~response_complete

\* C5: in a voice run recorder.start() is invoked at most once.
C5_StartAtMostOnce ==
    script = "voice" => Count(calls, "recorder.start") <= 1

\* the recorder is started and another start_recorder task is still to run
C5_Witness ==
    /\ script = "voice"
    /\ Count(calls, "recorder.start") = 1
    /\ tasks.start > 0
    /\ tasks.wait = "poll"

\* the first response.audio.delta, response.started or response.done was handled
StartSignalHandled ==
    seen \cap {"response.audio.delta", "response.started", "response.done"} # {}

RecorderStarted == recording_started /\ Count(calls, "recorder.start") >= 1

C7_Original ==
    (script = "voice" /\ Count(calls, "recorder.start") > 0) => seen # {}

\* C7 amended: recorder.start() is invoked only after a lifecycle event has
\* been handled or wait_for_response has timed out.
C7_StartGated ==
    (script = "voice" /\ Count(calls, "recorder.start") > 0) => (seen # {} \/ timed_out)

C7_Witness ==
    /\ script = "voice"
    /\ Count(calls, "recorder.start") = 1
    /\ seen = {"response.audio.delta"}
    /\ ~timed_out

CompletionHandled == seen \cap {"response.completed", "response.done"} # {}

StopThenClose ==
    \E i, j \in DOMAIN calls : i < j /\ calls[i] = "recorder.stop" /\ calls[j] = "pc.close"

\* every pc.close() so far was preceded by its own recorder.stop()
StopsBeforeCloses ==
    \A j \in DOMAIN calls :
        Count(SubSeq(calls, 1, j), "pc.close") <= Count(SubSeq(calls, 1, j), "recorder.stop")

\* C8: after response.completed or response.done a shutdown eventually runs
\* recorder.stop() and then pc.close(); every path that closes has stopped
\* first, the final cleanup included; and a recorder.stop() that raises
\* still leads its path to pc.close().
C8_StopThenClose ==
    /\ [](StopsBeforeCloses)
    /\ CompletionHandled ~> StopThenClose
    /\ [][ /\ Voice_shutdown_stop(TRUE) => tasks'.sd_stopped = tasks.sd_stopped + 1
           /\ Voice_cleanup_stop(TRUE) => mainpc' = "cleanup_close" ]_vars

\* after response.done the scheduled shutdown called recorder.stop(), which
\* raised, and then pc.close(), while the main coroutine still sleeps
C8_Witness ==
    /\ seen = {"response.done"}
    /\ mainpc = "sleep"
    /\ stop_raised
    /\ Len(calls) >= 2
    /\ calls[Len(calls) - 1] = "recorder.stop"
    /\ calls[Len(calls)] = "pc.close"

SignalingFailed == signaling # NoAnswer /\ (~signaling.success \/ signaling.sdp = "malformed")

\* C9: in the WebRTC scripts a non-success status or a malformed SDP answer
\* fails the session: no remote description is applied, the data channel
\* never opens, no JSON event is sent, and the voice script returns False.
C9_SignalingFailure ==
    (script \in {"t2t_WebRTC", "voice"} /\ SignalingFailed) =>
        /\ ~remote
        /\ conn = "new"
        /\ sent = <<>>
        /\ result # "none"
        /\ script = "voice" => result = "False"

C9_Witness ==
    /\ script = "voice"
    /\ signaling.success
    /\ signaling.sdp = "malformed"
    /\ result = "False"

\* C10: whenever run_webrtc_client has returned, pc.close() has been invoked
\* on the peer connection it created.
C10_ClosedOnReturn ==
    (script = "voice" /\ pc_created /\ result # "none") => Count(calls, "pc.close") >= 1

\* C11 as stated: when the run has returned, every scheduled shutdown task
\* and the final cleanup have each reached recorder.stop() and pc.close().
C11_Original ==
    (script = "voice" /\ result = "True") =>
        /\ Count(calls, "pc.close") = nShutdowns + 1
        /\ Count(calls, "recorder.stop") = nShutdowns + 1

\* C11 amended: recorder.stop() and pc.close() are reached at most once by
\* each scheduled shutdown task (one still asleep when the run returns is
\* cancelled) and once by the final cleanup; a repeated close leaves the
\* session closed, no error escapes, and the run still returns its result.
C11_CloseIdempotent ==
    /\ [](/\ Count(calls, "pc.close") <= nShutdowns + 1
          /\ Count(calls, "recorder.stop") <= nShutdowns + 1
          /\ ~escaped)
    /\ [](result = "True" =>
            /\ conn = "closed"
            /\ Count(calls, "pc.close") = nShutdowns - tasks.sd_sleep - tasks.sd_stopped + 1
            /\ Count(calls, "recorder.stop") = nShutdowns - tasks.sd_sleep + 1)
    /\ [][conn = "closed" => conn' = "closed"]_vars
    /\ remote ~> (result = "True")

\* two shutdown tasks and the final cleanup each closed, and the run returned
C11_Witness ==
    /\ script = "voice"
    /\ result = "True"
    /\ nShutdowns = 2
    /\ Count(calls, "pc.close") = 3
    /\ Count(calls, "recorder.stop") = 3

\* the response lifecycle of the voice run
Lifecycle ==
    IF response_done THEN "DONE" ELSE IF response_started THEN "STARTED" ELSE "IDLE"

\* C12: within one run (after process_voice_file has reset the globals) the
\* lifecycle only moves IDLE -> STARTED -> DONE or IDLE -> DONE, and each of
\* response_started, response_done, received_audio and recording_started
\* only ever changes from false to true.
C12_LifecycleMonotonic ==
    [][ (script = "voice" /\ ~Voice_reset) =>
            /\ response_started => response_started'
            /\ response_done => response_done'
            /\ received_audio => received_audio'
            /\ recording_started => recording_started'
            /\ <<Lifecycle, Lifecycle'>> \in
                   { <<"IDLE", "IDLE">>, <<"IDLE", "STARTED">>, <<"IDLE", "DONE">>,
                     <<"STARTED", "STARTED">>, <<"STARTED", "DONE">>, <<"DONE", "DONE">> } ]_vars

\* the response was started and done, and a further response.started came
C12_Witness ==
    /\ script = "voice"
    /\ nEvents = 3
    /\ seen = {"response.started", "response.done"}
    /\ response_started /\ response_done
    /\ Lifecycle = "DONE"

C14_UnsupportedWidthFallback ==
    (script = "AudioFileTrack" /\ mainpc # "start" /\ wav.sample_width \notin {2, 4}) =>
        /\ track.made /\ ~track.raised /\ track.file_loaded
        /\ len(track.audio_data) = 240000
        /\ AllZero(track.audio_data)
        /\ nRecv = 0 => track.position = 0

\* a readable 24-bit file with samples in it was loaded as the fallback
C14_Witness ==
    /\ script = "AudioFileTrack"
    /\ wav.readable /\ wav.sample_width = 3 /\ Len(wav.frames) > 0
    /\ track.made /\ nRecv = 0
    /\ track.audio_data = np_zeros(240000)

\* a readable mono 16-bit file at a rate other than 48000 Hz has been loaded
ResampledMono16 ==
    /\ script = "AudioFileTrack" /\ track.made
    /\ wav.readable /\ wav.channels = 1 /\ wav.sample_width = 2
    /\ wav.framerate # sample_rate

\* C15 as stated: the loaded length is round(original_length * 48000 / rate).
C15_Original ==
    ResampledMono16 =>
        len(track.audio_data) = Rounded(Len(wav.frames) * 48000, wav.framerate)

\* C15 amended: the loaded length is int(original_length * (48000 / rate))
\* computed in floats, not rounded: it is original_length * 48000 / rate
\* truncated to an integer, or one less than that when the exact quotient
\* is a whole number and the float product falls just below it.
C15_ResampledLength ==
    ResampledMono16 =>
        LET n == len(track.audio_data)
            exact == Len(wav.frames) * 48000
        IN  /\ n = trunc(fmul(Len(wav.frames), fdiv(48000, wav.framerate)))
            /\ n * wav.framerate <= exact
            /\ exact <= (n + 1) * wav.framerate
            /\ exact = (n + 1) * wav.framerate => n > 0

\* 689 samples at 5512 Hz load as 5999 samples (689 * 48000 / 5512 = 6000)
C15_Witness ==
    /\ ResampledMono16
    /\ wav.framerate = 5512 /\ Len(wav.frames) = 689
    /\ len(track.audio_data) = 5999

\* C16: a recv call made with the cursor at or past the end of the buffer
\* returns a frame of exactly 960 samples, all zero, and leaves the cursor
\* (and the buffer) unchanged, so that every later call is such a call too.
C16_SilencePastEnd ==
    [][ (Track_recv /\ track.position >= len(track.audio_data)) =>
            /\ frame'.made
            /\ len(frame'.data) = 960
            /\ AllZero(frame'.data)
            /\ track'.position = track.position
            /\ track'.audio_data = track.audio_data ]_vars

\* a response was received and recorded
ResponseRecorded == seen # {} /\ RecorderStarted

\* C17: process_voice_file returns True if and only if a voice response was
\* received and recorded; every run that ends without one returns False.
C17_TrueIffSuccess ==
    (script = "voice" /\ result # "none") => (result = "True" <=> ResponseRecorded)

\* C18: when the input file does not exist run_webrtc_client returns False
\* with no peer connection, audio track or recorder made, no signaling
\* request, no event sent, no task, and the lifecycle flags still false.
C18_MissingInput ==
    [][ Voice_validate(FALSE) =>
            /\ result' = "False" /\ mainpc' = "returned"
            /\ ~pc_created' /\ ~track'.made
            /\ signaling' = NoAnswer /\ ~remote' /\ conn' = "new"
            /\ sent' = <<>> /\ calls' = <<>> /\ tasks' = InitTasks
            /\ ~received_audio' /\ ~recording_started'
            /\ ~response_started' /\ ~response_done' ]_vars

\* the run returned False at the existence check
C18_Witness ==
    /\ script = "voice"
    /\ mainpc = "returned" /\ result = "False"
    /\ ~pc_created /\ ~track.made /\ signaling = NoAnswer

\* C19: in chat_test an input of exit or quit in any letter case sets
\* running to false and sends nothing; the sender's next step closes the
\* socket and leaves the loop, and it always takes that step; messages the
\* receive loop handles in between change neither; once running is false
\* nothing is sent and running stays false.
C19_ExitTerminates ==
    /\ [][ \A u \in {"exit", "Quit", "EXIT"} :
              Chat_input(u) =>
                  ~running' /\ mainpc' = "close" /\ sent' = sent ]_vars
    /\ [][ (script = "chat_test" /\ mainpc = "close" /\ mainpc' # "close") =>
              conn' = "closed" /\ mainpc' = "done" ]_vars
    /\ [][ (script = "chat_test" /\ ~running) =>
              ~running' /\ mainpc' \in {"close", "done"} /\ sent' = sent ]_vars
    /\ [](script = "chat_test" /\ ~running =>
              \/ mainpc = "close" /\ conn = "open"
              \/ mainpc = "done" /\ conn = "closed")
    /\ (script = "chat_test" /\ ~running) ~> (conn = "closed" /\ mainpc = "done")

\* the user asked once, got the answer, and then typed exit
C19_Witness ==
    /\ script = "chat_test"
    /\ ~running /\ conn = "closed" /\ mainpc = "done"
    /\ sent = <<"conversation.item.create", "response.create">>
    /\ response_complete

\* requests go out as conversation.item.create, response.create pairs
PairedRequests(seq) ==
    \A i \in DOMAIN seq :
        /\ seq[i] \in {"conversation.item.create", "response.create"}
        /\ seq[i] = "response.create" <=> i % 2 = 0

\* events are sent only once the transport is open, and in the fixed order
SentInOrder ==
    /\ sent # <<>> => conn # "new"
    /\ script \in TextScripts => PairedRequests(sent)
    /\ script = "voice" =>
           /\ sent \in {<<>>, <<"session.update">>, <<"session.update", "response.create">>}
           /\ tasks.wait # "none" => Count(sent, "response.create") = 1

\* C20 as stated: besides the order, the voice run sends response.create
\* exactly once.
C20_Original ==
    /\ SentInOrder
    /\ (script = "voice" /\ result = "True") => Count(sent, "response.create") = 1

\* C20 amended: events are sent only after the open callback and in the
\* fixed order; the voice run sends session.update first and response.create
\* after it, at most once, and wait_for_response starts only after it.
C20_OutboundOrder ==
    /\ SentInOrder
    /\ (script = "voice" /\ result = "True") => Count(sent, "response.create") <= 1

\* the voice run sent both events and the poller is running
C20_Witness ==
    /\ script = "voice"
    /\ sent = <<"session.update", "response.create">>
    /\ tasks.wait = "poll"

\* C21: recorder.start() is never invoked after recorder.stop() or
\* pc.close() has been invoked, whatever the interleaving of the
\* start_recorder tasks, the poller, the shutdown tasks and the cleanup.
C21_NoStartAfterStop ==
    script = "voice" =>
        \A j \in DOMAIN calls :
            calls[j] = "recorder.start" =>
                \A i \in 1..(j - 1) : calls[i] \notin {"recorder.stop", "pc.close"}

\* the sender is in its polling loop (the test of the flags or the sleep)
Polling == mainpc \in {"sleep", "loop"}

\* C22: in chat_test, once the response.done of a request has been handled
\* the polling sender reaches the prompt again; only the handling of a
\* response.done sets response_complete; and while it is unset the sender
\* stays in its polling loop, neither prompting nor sending.
C22_PromptAfterDone ==
    /\ (response_complete /\ Polling) ~> (mainpc = "input")
    /\ [][ (~response_complete /\ response_complete') =>
              inbox' = Append(inbox, Event("response.done")) ]_vars
    /\ [][ (~response_complete /\ ~response_complete' /\ Polling) =>
              (Polling' /\ sent' = sent) ]_vars

\* a request was answered and the sender is back at the prompt
C22_Witness ==
    /\ script = "chat_test"
    /\ mainpc = "input"
    /\ sent = <<"conversation.item.create", "response.create">>
    /\ Count(inbox, Event("response.done")) = 1
    /\ response_complete

\* C23: a voice run that has passed signaling returns, whether or not the
\* data channel opens or any event arrives and whatever the poller does; it
\* returns only after its cleanup has invoked recorder.stop() and then
\* pc.close().
C23_RunTerminates ==
    /\ remote ~> (mainpc = "returned")
    /\ [](mainpc = "returned" /\ remote =>
            /\ result = "True"
            /\ StopThenClose
            /\ conn = "closed")
    /\ [][ Voice_return =>
              \E i \in DOMAIN calls :
                  /\ calls[i] = "pc.close"
                  /\ \E h \in 1..(i - 1) : calls[h] = "recorder.stop" ]_vars

\* the run returned with no event handled while the poller was still polling
C23_Witness ==
    /\ script = "voice"
    /\ mainpc = "returned" /\ result = "True"
    /\ seen = {}
    /\ tasks.wait = "poll"
    /\ calls = <<"recorder.stop", "pc.close">>

\* B[960k .. 960k+959], zero-padded past the end of B
Window(B, k) ==
    LET lo == 960 * k
        n == Max(0, Min(960, Len(B.samples) - lo))
        z == Max(0, Min(960, len(B) - lo) - n)
    IN  [explicit |-> [i \in 1..n |-> B.samples[lo + i]], zeros |-> z, padding |-> 960 - n - z]

\* C24: the k-th recv call (k = 0, 1, ...) returns exactly 960 samples, the
\* window B[960k .. 960k+959] of the loaded buffer zero-padded past its end,
\* with timestamp 960k; the buffer is left as it was and the timestamp
\* advances by 960 on every call, silent frames included.
C24_RecvWindows ==
    [][ Track_recv =>
            LET w == Window(track.audio_data, nRecv)
            IN  /\ frame'.made
                /\ len(frame'.data) = 960
                /\ frame'.data.samples = w.explicit
                /\ frame'.data.zeros = w.zeros + w.padding
                /\ frame'.timestamp = 960 * nRecv
                /\ track'.timestamp = track.timestamp + 960
                /\ track'.audio_data = track.audio_data ]_vars

\* event.get("type", "") of a well-formed event
EventType(m) == IF m.type.t = "str" THEN m.type.v ELSE ""

BufferTypes == {"response.created", "response.text.delta"}

\* C25: an inbound event changes complete_response only if it is a
\* response.created or a response.text.delta; a text event of a type other
\* than those and response.done changes no buffer, output or flag; a voice
\* event of a type outside the lifecycle events changes no flag; and such
\* events schedule no task and no event makes a handler send anything.
C25_FrameEffects ==
    [][ /\ \A m \in FrameMessages :
              Deliver(m) =>
                  /\ EventType(m) \notin BufferTypes => complete_response' = complete_response
                  /\ EventType(m) \notin BufferTypes \cup {"response.done"} =>
                         UNCHANGED <<complete_response, surfaced, response_complete, flagVars>>
                  /\ UNCHANGED <<sent, calls, tasks, escaped>>
        /\ \A m \in VoiceFrameMessages :
              Voice_deliver(m) =>
                  /\ EventType(m) \notin LifecycleTypes =>
                         UNCHANGED <<flagVars, tasks, complete_response, surfaced>>
                  /\ UNCHANGED <<sent, calls, escaped>>
        /\ complete_response' # complete_response =>
              \E m \in FrameMessages : EventType(m) \in BufferTypes /\ Deliver(m) ]_vars

\* three events outside the lifecycle were handled and the voice run is
\* still idle with nothing scheduled
C25_Witness ==
    /\ script = "voice"
    /\ nEvents = 3
    /\ seen = {}
    /\ ~received_audio /\ ~recording_started /\ ~response_started /\ ~response_done
    /\ tasks.start = 0 /\ tasks.sd_sleep = 0
    /\ sent = <<"session.update">>

AllFlagsFalse ==
    ~received_audio /\ ~recording_started /\ ~response_started /\ ~response_done

\* C26: whatever values the four globals hold when process_voice_file is
\* called, its reset leaves all four false, and the run that follows starts
\* from IDLE: until an event is handled or the poller times out, all four
\* flags are false, recorder.start() has not been called and no task has
\* been created.
C26_ResetBeforeRun ==
    /\ [][Voice_reset => (AllFlagsFalse)']_vars
    /\ [](script = "voice" /\ mainpc \in {"start", "signal"} =>
             AllFlagsFalse /\ Lifecycle = "IDLE" /\ calls = <<>> /\ tasks = InitTasks)
    /\ [](script = "voice" /\ mainpc # "call" /\ nEvents = 0 /\ tasks.wait # "done" =>
             AllFlagsFalse /\ Lifecycle = "IDLE" /\ "recorder.start" \notin {calls[i] : i \in DOMAIN calls})

\* the reset has run, the peer connection and the track exist, signaling
\* has not begun and the run is idle
C26_Witness ==
    /\ script = "voice"
    /\ mainpc = "signal"
    /\ pc_created
    /\ track # NoTrack
    /\ AllFlagsFalse
    /\ Lifecycle = "IDLE"
    /\ calls = <<>>

====
